---- MODULE Spec2Model ----
(***************************************************************************)
(* Verification model of the retrieval-and-adjudication pipeline:          *)
(*   backend/decision_engine/reasoning_tree.py  (Claim Reasoner)           *)
(*   backend/decision_engine/evaluator.py       (Decision Overrider)       *)
(*   backend/decision_engine/llm_decision.py    (call_llm error handling)  *)
(*   backend/decision_engine/explainable_decisions.py (_extract_decision)  *)
(*   backend/utils/chunker.py                   (chunk_text)               *)
(*   backend/retriever/embedder.py, backend/api/routes.py (fit state)      *)
(*                                                                         *)
(* Text is modelled as a sequence of tokens (words).  Python's substring   *)
(* test `key in text` becomes the contiguous-token test Contains, with the *)
(* table SubTokens recording which vocabulary words contain another one as *)
(* a character substring ("approved" contains "approve").  str.lower() is  *)
(* the table Lower.  Floating point confidences and weights are kept as    *)
(* integer percentages; the overall confidence is the exact fraction       *)
(* num/den.                                                                *)
(***************************************************************************)
EXTENDS Integers, Sequences, FiniteSets, TLC

VARIABLES
    \* ---- evaluate_claim (evaluator.py) ----
    query,          \* the claim dict handed to evaluate_claim
    chunks,         \* the retrieved chunks handed to evaluate_claim
    pc,             \* position inside evaluate_claim
    tree,           \* ReasoningTree built by analyze_claim (line 67)
    llm,            \* what the language-model call did
    result,         \* the dict returned by evaluate_claim
    extracted,      \* ExplainableDecisionProcessor._extract_decision(response)
    \* ---- chunk_text (chunker.py) ----
    c_input,        \* the `text` argument as the caller passed it
    c_text,         \* local `text`
    c_size,         \* chunk_size
    c_overlap,      \* chunk_overlap
    c_start,        \* local `start`
    c_chunks,       \* local `chunks` (the windows cut so far)
    c_windows,      \* the [start, end) of every window the loop has cut
    c_pc,           \* position inside chunk_text
    \* ---- embedder.py globals and routes.py uploaded_files ----
    vectorizer,     \* module global `vectorizer`
    is_fitted,      \* module global `is_fitted`
    uploaded_files, \* routes.uploaded_files: file_id -> store record
    last_query,     \* what the last /query/ call embedded and searched
    embed_call,     \* what the last direct embed_chunks / embed_query call did
    \* ---- VectorStore (vector_store.py) ----
    store,          \* one VectorStore: dimension, index vectors, text_chunks
    searched,       \* what the last VectorStore call did (a search, or an add that raised)
    \* ---- MultiDocumentStore (multi_document_store.py) ----
    mds             \* one MultiDocumentStore: its attributes, and its last call

vars == <<query, chunks, pc, tree, llm, result, extracted,
          c_input, c_text, c_size, c_overlap, c_start, c_chunks, c_windows, c_pc,
          vectorizer, is_fitted, uploaded_files, last_query, embed_call,
          store, searched, mds>>

evalVars  == <<query, chunks, pc, tree, llm, result, extracted>>
chunkVars == <<c_input, c_text, c_size, c_overlap, c_start, c_chunks, c_windows, c_pc>>
embedVars == <<vectorizer, is_fitted, uploaded_files, last_query, embed_call>>
storeVars == <<store, searched>>
multiVars == <<mds>>

-----------------------------------------------------------------------------
(* Bounds of the model *)

\* longest free prose part of a modelled LLM response, in tokens
MaxProse == 2
\* longest raw input text of chunk_text, in characters
MaxTextLen == 4
\* largest chunk_size / chunk_overlap tried
MaxChunkSize == 3
\* most vectors, and most chunks, one VectorStore holds
MaxStored == 3
\* most embeddings handed to one add call
MaxBatch == 2
\* largest top_k of a search call
MaxTopK == 2
\* number of TfidfVectorizer instances created in one run of the embedder
MaxInstances == 4
\* number of uploads in one run of the upload/query model
MaxUploads == 3
\* add_document calls on one MultiDocumentStore
MaxDocuments == 3
\* windows of chunk_text that are recorded; a run that terminates makes at
\* most len(text) iterations (each starts at a different offset)
MaxRecorded == MaxTextLen + 1

-----------------------------------------------------------------------------
(* Text helpers *)

\* str.lower() on one token
Lower(tok) ==
    CASE tok = "DECISION:" -> "decision:"
      [] tok = "Decision:" -> "decision:"
      [] tok = "APPROVED"  -> "approved"
      [] tok = "Approved"  -> "approved"
      [] tok = "REJECTED"  -> "rejected"
      [] tok = "Rejected"  -> "rejected"
      [] tok = "COVERAGE"  -> "coverage"
      [] tok = "AMOUNT:"   -> "amount:"
      [] tok = "Cataract"  -> "cataract"
      [] tok = "Surgery"   -> "surgery"
      [] tok = "Error"     -> "error"
      [] tok = "LLM:"      -> "llm:"
      [] tok = "Sum"       -> "sum"
      [] tok = "Insured"   -> "insured"
      [] tok = "Accident"  -> "accident"
      [] OTHER             -> tok

\* str.lower() on a text
LowerText(text) == [i \in 1..Len(text) |-> Lower(text[i])]

\* pairs <<word, part>> of the vocabulary where `part` is a proper
\* character substring of `word`
SubTokens ==
    { <<"approved", "approve">>, <<"rejected", "reject">>,
      <<"amount:", "amount">>, <<"cataracts", "cataract">>,
      <<"rupees", "rupee">>, <<"rupees", "rs">> }

\* `part in word` for single words
TokHas(word, part) == word = part \/ <<word, part>> \in SubTokens

\* `key in text` (case-sensitive); the empty key is in every text
Contains(text, key) ==
    \E i \in 0..(Len(text) - Len(key)) :
        \A j \in 1..Len(key) : TokHas(text[i + j], key[j])

\* digit runs of the vocabulary and int() of them
NumToks == {"0", "24", "5000", "500000"}

NumVal(tok) ==
    CASE tok = "0"      -> 0
      [] tok = "24"     -> 24
      [] tok = "5000"   -> 5000
      [] tok = "500000" -> 500000
      [] OTHER          -> 0

\* len() of a text in characters: the words joined by single blanks
RECURSIVE CharLen(_)
CharLen(text) ==
    IF text = <<>> THEN 0
    ELSE Len(Head(text)) + (IF Len(text) > 1 THEN 1 ELSE 0) + CharLen(Tail(text))

\* all sequences over S of length at most n
RECURSIVE SeqsUpTo(_, _)
SeqsUpTo(S, n) ==
    IF n = 0 THEN {<< >>}
    ELSE LET shorter == SeqsUpTo(S, n - 1)
         IN  shorter \cup {Append(s, x) : s \in shorter, x \in S}

-----------------------------------------------------------------------------
(* Claim Reasoner: reasoning_tree.py *)

\* a claim field: present with a value, present with None, or absent
Val(v)      == [st |-> "val", v |-> v]
NoneStr     == [st |-> "none", v |-> <<>>]
MissingStr  == [st |-> "missing", v |-> <<>>]
NoneInt     == [st |-> "none", v |-> 0]
MissingInt  == [st |-> "missing", v |-> 0]

\* ReasoningTree.__init__
NewTree == [nodes |-> <<>>, final_decision |-> "PENDING",
            confidence_score |-> [num |-> 0, den |-> 1]]

\* ReasoningTree.add_step
AddStep(t, step, status, details, confidence) ==
    [t EXCEPT !.nodes = Append(@, [step |-> step, status |-> status,
                                   details |-> details,
                                   confidence |-> confidence])]

\* the free-text detail of a step, kept as its template and its arguments
Detail(kind, procedure, duration, required) ==
    [kind |-> kind, procedure |-> procedure,
     duration |-> duration, required |-> required]

\* query_data.get('procedure', '').lower(): the lower-cased procedure, or
\* an AttributeError when the key is present with None
GetProcedure(q) ==
    CASE q.procedure.st = "val"     -> [ok |-> TRUE, v |-> LowerText(q.procedure.v)]
      [] q.procedure.st = "missing" -> [ok |-> TRUE, v |-> <<>>]
      [] OTHER                      -> [ok |-> FALSE, v |-> <<>>]

\* query_data.get('policy_duration_months', 0): an int, or None
GetDuration(q) ==
    CASE q.policy_duration_months.st = "val"     -> [isnone |-> FALSE, v |-> q.policy_duration_months.v]
      [] q.policy_duration_months.st = "missing" -> [isnone |-> FALSE, v |-> 0]
      [] OTHER                                   -> [isnone |-> TRUE, v |-> 0]

\* _check_procedure_coverage: one PROCEDURE_MATCHED step
CheckProcedureCoverage(t, q, clauses) ==
    LET p == GetProcedure(q)
        found == \E i \in 1..Len(clauses) : Contains(LowerText(clauses[i]), p.v)
    IN  IF ~p.ok THEN [ok |-> FALSE, tree |-> t]
        ELSE IF found
             THEN [ok |-> TRUE, tree |-> AddStep(t, "PROCEDURE_MATCHED", TRUE,
                        Detail("found in policy coverage", p.v, 0, 0), 90)]
             ELSE [ok |-> TRUE, tree |-> AddStep(t, "PROCEDURE_MATCHED", FALSE,
                        Detail("not explicitly covered in policy", p.v, 0, 0), 70)]

\* the waiting_periods dict, in insertion order
WaitingPeriods ==
    << [proc |-> <<"cataract">>, period |-> 24],
       [proc |-> <<"cataract", "surgery">>, period |-> 24],
       [proc |-> <<"heart", "surgery">>, period |-> 24],
       [proc |-> <<"knee", "replacement">>, period |-> 24],
       [proc |-> <<"dental">>, period |-> 0],
       [proc |-> <<"cosmetic">>, period |-> 0] >>

\* the loop over waiting_periods with its break: the period of the first
\* matching entry, 0 when none matches
RequiredWaitingPeriod(procedure) ==
    LET hits == {i \in 1..Len(WaitingPeriods) : Contains(procedure, WaitingPeriods[i].proc)}
    IN  IF hits = {} THEN 0
        ELSE WaitingPeriods[CHOOSE i \in hits : \A k \in hits : i <= k].period

\* _check_waiting_period: one WAITING_PERIOD_MET / WAITING_PERIOD_NOT_MET step
CheckWaitingPeriod(t, q, clauses) ==
    LET p == GetProcedure(q)
        d == GetDuration(q)
        required == RequiredWaitingPeriod(p.v)
    IN  IF ~p.ok THEN [ok |-> FALSE, tree |-> t]
        ELSE IF required = 0
             THEN [ok |-> TRUE, tree |-> AddStep(t, "WAITING_PERIOD_MET", TRUE,
                        Detail("No specific waiting period found", p.v, 0, 0), 80)]
        ELSE IF d.isnone THEN [ok |-> FALSE, tree |-> t]
        ELSE IF d.v >= required
             THEN [ok |-> TRUE, tree |-> AddStep(t, "WAITING_PERIOD_MET", TRUE,
                        Detail("months >= required", <<>>, d.v, required), 95)]
             ELSE [ok |-> TRUE, tree |-> AddStep(t, "WAITING_PERIOD_NOT_MET", FALSE,
                        Detail("months < required", <<>>, d.v, required), 95)]

\* the exclusions dict, in insertion order
Exclusions ==
    << [type |-> <<"cosmetic">>, reason |-> "Cosmetic surgery is excluded unless reconstruction after accident"],
       [type |-> <<"dental">>, reason |-> "Dental treatment is excluded unless emergency due to accident"],
       [type |-> <<"experimental">>, reason |-> "Experimental treatments are excluded"],
       [type |-> <<"refractive">>, reason |-> "Refractive eye surgery is excluded unless medically necessary"] >>

CheckExclusions_Emergency(t, q, clauses) ==
    LET p == GetProcedure(q)
        hits == {i \in 1..Len(Exclusions) :
                    /\ Contains(p.v, Exclusions[i].type)
                    /\ ~(Exclusions[i].type = <<"dental">> /\ Contains(p.v, <<"emergency">>))}
        first == CHOOSE i \in hits : \A k \in hits : i <= k
    IN  IF ~p.ok THEN [ok |-> FALSE, tree |-> t]
        ELSE IF hits # {}
             THEN [ok |-> TRUE, tree |-> AddStep(t, "EXCLUSION_FOUND", FALSE,
                        Detail(Exclusions[first].reason, <<>>, 0, 0), 90)]
             ELSE [ok |-> TRUE, tree |-> AddStep(t, "NO_EXCLUSION", TRUE,
                        Detail("No exclusions found", p.v, 0, 0), 80)]

\* _check_exclusions: one EXCLUSION_FOUND / NO_EXCLUSION step
CheckExclusions(t, q, clauses) ==
    LET p == GetProcedure(q)
        hits == {i \in 1..Len(Exclusions) : Contains(p.v, Exclusions[i].type)}
        first == CHOOSE i \in hits : \A k \in hits : i <= k
    IN  IF ~p.ok THEN [ok |-> FALSE, tree |-> t]
        ELSE IF hits # {}
             THEN [ok |-> TRUE, tree |-> AddStep(t, "EXCLUSION_FOUND", FALSE,
                        Detail(Exclusions[first].reason, <<>>, 0, 0), 90)]
             ELSE [ok |-> TRUE, tree |-> AddStep(t, "NO_EXCLUSION", TRUE,
                        Detail("No exclusions found", p.v, 0, 0), 80)]

CheckPolicyStatus_NonNegative(t, q, clauses) ==
    LET d == GetDuration(q)
    IN  IF d.isnone THEN [ok |-> FALSE, tree |-> t]
        ELSE IF d.v >= 0
             THEN [ok |-> TRUE, tree |-> AddStep(t, "POLICY_ACTIVE", TRUE,
                        Detail("Policy is active", <<>>, d.v, 0), 90)]
             ELSE [ok |-> TRUE, tree |-> AddStep(t, "POLICY_ACTIVE", FALSE,
                        Detail("Policy duration is invalid or zero", <<>>, 0, 0), 90)]

\* _check_policy_status: one POLICY_ACTIVE step; None > 0 is a TypeError
CheckPolicyStatus(t, q, clauses) ==
    LET d == GetDuration(q)
    IN  IF d.isnone THEN [ok |-> FALSE, tree |-> t]
        ELSE IF d.v > 0
             THEN [ok |-> TRUE, tree |-> AddStep(t, "POLICY_ACTIVE", TRUE,
                        Detail("Policy is active", <<>>, d.v, 0), 90)]
             ELSE [ok |-> TRUE, tree |-> AddStep(t, "POLICY_ACTIVE", FALSE,
                        Detail("Policy duration is invalid or zero", <<>>, 0, 0), 90)]

\* step_weights.get(node.step, 0.1), in percent
StepWeight(step) ==
    CASE step = "PROCEDURE_MATCHED"  -> 25
      [] step = "WAITING_PERIOD_MET" -> 30
      [] step = "NO_EXCLUSION"       -> 25
      [] step = "COVERAGE_VERIFIED"  -> 20
      [] OTHER                       -> 10

\* sum() of a sequence of integers
RECURSIVE SeqSum(_)
SeqSum(s) == IF s = <<>> THEN 0 ELSE Head(s) + SeqSum(Tail(s))

\* ReasoningTree.calculate_overall_confidence: the fraction num/den, num in
\* 1/10000 and den in 1/100 (so num/den is a percentage)
CalculateOverallConfidence(t) ==
    LET total_weight == SeqSum([i \in 1..Len(t.nodes) |-> StepWeight(t.nodes[i].step)])
        weighted_sum == SeqSum([i \in 1..Len(t.nodes) |-> t.nodes[i].confidence * StepWeight(t.nodes[i].step)])
    IN  IF t.nodes = <<>>
        THEN [t EXCEPT !.confidence_score = [num |-> 0, den |-> 1]]
        ELSE IF total_weight > 0
             THEN [t EXCEPT !.confidence_score = [num |-> weighted_sum, den |-> total_weight]]
             ELSE [t EXCEPT !.confidence_score =
                      [num |-> SeqSum([i \in 1..Len(t.nodes) |-> t.nodes[i].confidence]), den |-> Len(t.nodes)]]

CalculateFinalDecision_Majority(t) ==
    LET passed_steps == Cardinality({i \in 1..Len(t.nodes) : t.nodes[i].status})
        total_steps == Len(t.nodes)
        t2 == CalculateOverallConfidence(t)
    IN  [t2 EXCEPT !.final_decision =
            IF 2 * passed_steps > total_steps THEN "APPROVED" ELSE "REJECTED"]

\* ReasoningEngine._calculate_final_decision
CalculateFinalDecision(t) ==
    LET passed_steps == Cardinality({i \in 1..Len(t.nodes) : t.nodes[i].status})
        total_steps == Len(t.nodes)
        t2 == CalculateOverallConfidence(t)
    IN  [t2 EXCEPT !.final_decision =
            IF passed_steps = total_steps THEN "APPROVED" ELSE "REJECTED"]

\* ReasoningEngine.analyze_claim: the tree, or ok = FALSE when a check raises
AnalyzeClaim(q, clauses) ==
    LET s1 == CheckProcedureCoverage(NewTree, q, clauses)
        s2 == CheckWaitingPeriod(s1.tree, q, clauses)
        s3 == CheckExclusions(s2.tree, q, clauses)
        s4 == CheckPolicyStatus(s3.tree, q, clauses)
    IN  IF s1.ok /\ s2.ok /\ s3.ok /\ s4.ok
        THEN [ok |-> TRUE, tree |-> CalculateFinalDecision(s4.tree)]
        ELSE [ok |-> FALSE, tree |-> NewTree]

ResetTree_Keep(t) == t

\* analyze_claim, line 136: self.tree = ReasoningTree()
ResetTree(t) == NewTree

\* ReasoningEngine.analyze_claim on an engine whose self.tree is t: the new
\* self.tree, and ok = FALSE when a check raises (self.tree then holds the
\* steps appended before the raise)
AnalyzeClaimOn(t, q, clauses) ==
    LET s0 == ResetTree(t)
        s1 == CheckProcedureCoverage(s0, q, clauses)
        s2 == CheckWaitingPeriod(s1.tree, q, clauses)
        s3 == CheckExclusions(s2.tree, q, clauses)
        s4 == CheckPolicyStatus(s3.tree, q, clauses)
    IN  IF ~s1.ok THEN [ok |-> FALSE, tree |-> s1.tree]
        ELSE IF ~s2.ok THEN [ok |-> FALSE, tree |-> s2.tree]
        ELSE IF ~s3.ok THEN [ok |-> FALSE, tree |-> s3.tree]
        ELSE IF ~s4.ok THEN [ok |-> FALSE, tree |-> s4.tree]
        ELSE [ok |-> TRUE, tree |-> CalculateFinalDecision(s4.tree)]

\* ReasoningTree.get_json_breakdown
GetJsonBreakdown(t) ==
    [reasoning_tree |-> t.nodes, final_decision |-> t.final_decision,
     overall_confidence |-> t.confidence_score]

-----------------------------------------------------------------------------
(* Decision Overrider: evaluator.py *)

\* a finding of check_waiting_periods_and_exclusions (the message template
\* with its arguments)
Issue(kind, what, months) == [kind |-> kind, what |-> what, months |-> months]

\* the specified_diseases list, in order
SpecifiedDiseases ==
    << <<"cataract">>, <<"hernia">>, <<"fistula">>, <<"sinus">>,
       <<"haemorrhoids">>, <<"piles">>, <<"hydrocele">>, <<"fibromyoma">>,
       <<"endometriosis">>, <<"hysterectomy">>, <<"uterine", "prolapse">>,
       <<"stones">>, <<"tumors">>, <<"cysts">>, <<"gall", "bladder">>,
       <<"pancreatitis">>, <<"cirrhosis">>, <<"gout">>, <<"rheumatism">>,
       <<"tonsilitis">>, <<"varicose", "veins">>, <<"kidney", "disease">>,
       <<"alzheimer">>, <<"joint", "replacement">>, <<"vertebral", "column">>,
       <<"nasal", "septum">>, <<"turbinate">>, <<"congenital">>,
       <<"refractive", "error">>, <<"bariatric">>, <<"parkinson">>,
       <<"genetic">> >>

\* months below which a specified disease is still in its waiting period
SpecifiedWaitingMonths == 24

\* check_waiting_periods_and_exclusions(query, chunks), for a procedure
\* string and an integer duration (evaluate_claim reaches it only after
\* analyze_claim accepted both)
CheckWaitingPeriodsAndExclusions(q, cs) ==
    LET procedure == GetProcedure(q).v
        policy_duration == GetDuration(q).v
        accidentChunks ==
            {i \in 1..Len(cs) :
                /\ Contains(LowerText(cs[i]), <<"accident">>)
                /\ \/ Contains(LowerText(cs[i]), <<"excluded">>)
                   \/ Contains(LowerText(cs[i]), <<"not", "covered">>)}
        hits == {i \in 1..Len(SpecifiedDiseases) : Contains(procedure, SpecifiedDiseases[i])}
        first == CHOOSE i \in hits : \A k \in hits : i <= k
        w1 == IF hits # {} /\ policy_duration < SpecifiedWaitingMonths
              THEN << Issue("waiting", SpecifiedDiseases[first], policy_duration) >>
              ELSE << >>
        w2 == IF Contains(procedure, <<"cataract">>) /\ policy_duration < SpecifiedWaitingMonths
              THEN << Issue("waiting", <<"cataract", "surgery">>, policy_duration) >>
              ELSE << >>
        e1 == IF Contains(procedure, <<"cosmetic">>)
              THEN << Issue("exclusion", <<"cosmetic">>, 0) >> ELSE << >>
        e2 == IF Contains(procedure, <<"dental">>) /\ ~Contains(procedure, <<"emergency">>)
              THEN << Issue("exclusion", <<"dental">>, 0) >> ELSE << >>
    IN  IF Contains(procedure, <<"accident">>)
        THEN [waiting |-> << >>,
              exclusion |-> [i \in 1..Cardinality(accidentChunks) |->
                                Issue("exclusion", <<"accident">>, 0)]]
        ELSE [waiting |-> w1 \o w2, exclusion |-> e1 \o e2]

\* re.search(r'DECISION:\s*(APPROVED|REJECTED)', text, re.IGNORECASE):
\* group(1).lower() of the leftmost match, "none" without a match
SearchDecisionMarker(text) ==
    LET hits == {i \in 1..(Len(text) - 1) :
                    /\ Lower(text[i]) = "decision:"
                    /\ Lower(text[i + 1]) \in {"approved", "rejected"}}
        first == CHOOSE i \in hits : \A k \in hits : i <= k
    IN  IF hits = {} THEN "none" ELSE Lower(text[first + 1])

\* lines 94-107: the decision parsed from the structured marker
ParseDecision(llm_response) ==
    IF Contains(llm_response, <<"DECISION:">>)
    THEN IF SearchDecisionMarker(llm_response) # "none"
         THEN SearchDecisionMarker(llm_response)
         ELSE "rejected"
    ELSE "rejected"

\* positions of the digit runs of a text
NumPositions(text) == {i \in 1..Len(text) : text[i] \in NumToks}

\* a regex `label\s*(\d+)`: the label words directly followed by digits
LabelThenNum(text, label) ==
    LET low == LowerText(text)
        hits == {i \in 0..(Len(text) - Len(label) - 1) :
                    /\ \A j \in 1..Len(label) : low[i + j] = label[j]
                    /\ (i + Len(label) + 1) \in NumPositions(text)}
        first == CHOOSE i \in hits : \A k \in hits : i <= k
    IN  IF hits = {} THEN [found |-> FALSE, v |-> 0]
        ELSE [found |-> TRUE, v |-> NumVal(text[first + Len(label) + 1])]

\* a regex `(\d+)\s*unit`: digits directly followed by a word starting
\* with the unit
NumThenUnit(text, units) ==
    LET low == LowerText(text)
        hits == {i \in 1..(Len(text) - 1) :
                    i \in NumPositions(text) /\ low[i + 1] \in units}
        first == CHOOSE i \in hits : \A k \in hits : i <= k
    IN  IF hits = {} THEN [found |-> FALSE, v |-> 0]
        ELSE [found |-> TRUE, v |-> NumVal(text[first])]

\* a regex `label.*?(\d+)`: the first digits anywhere after the leftmost
\* occurrence of the label
LabelLazyNum(text, label) ==
    LET low == LowerText(text)
        hits == {i \in 0..(Len(text) - Len(label)) :
                    /\ \A j \in 1..Len(label) : TokHas(low[i + j], label[j])
                    /\ \E n \in NumPositions(text) : n > i + Len(label)}
        first == CHOOSE i \in hits : \A k \in hits : i <= k
        nums == {n \in NumPositions(text) : n > first + Len(label)}
    IN  IF hits = {} THEN [found |-> FALSE, v |-> 0]
        ELSE [found |-> TRUE, v |-> NumVal(text[CHOOSE n \in nums : \A m \in nums : n <= m])]

\* the first entry of a list of regex results that matched, amount 0 when
\* none did
FirstFound(matches) ==
    LET hits == {i \in 1..Len(matches) : matches[i].found}
    IN  IF hits = {} THEN [found |-> FALSE, v |-> 0]
        ELSE matches[CHOOSE i \in hits : \A k \in hits : i <= k]

\* lines 138-158: the amount_patterns loop over the LLM response
ExtractAmount(llm_response) ==
    FirstFound(<< LabelThenNum(llm_response, <<"coverage", "amount:">>),
                  LabelThenNum(llm_response, <<"amount:">>),
                  LabelThenNum(llm_response, <<"(rupee-sign)">>),
                  FirstFound(<<LabelThenNum(llm_response, <<"rs">>),
                               LabelThenNum(llm_response, <<"rs.">>)>>),
                  LabelThenNum(llm_response, <<"inr">>),
                  NumThenUnit(llm_response, {"rupee", "rupees"}),
                  NumThenUnit(llm_response, {"rs", "rs."}),
                  LabelLazyNum(llm_response, <<"coverage">>),
                  LabelLazyNum(llm_response, <<"amount">>) >>).v

\* lines 163-169 and 172-180: the sum_insured_patterns loop over one chunk
ChunkSumInsured(chunk) ==
    FirstFound(<< LabelLazyNum(chunk, <<"sum", "insured">>),
                  LabelLazyNum(chunk, <<"policy", "limit">>),
                  LabelLazyNum(chunk, <<"coverage", "limit">>),
                  LabelLazyNum(chunk, <<"maximum">>),
                  LabelLazyNum(chunk, <<"up", "to">>) >>)

\* lines 171-182: the loop over the chunks, which stops at the first
\* chunk that yields a positive amount
SumInsuredFromChunks(cs) ==
    LET hits == {i \in 1..Len(cs) : ChunkSumInsured(cs[i]).found /\ ChunkSumInsured(cs[i]).v > 0}
    IN  IF hits = {} THEN 0
        ELSE ChunkSumInsured(cs[CHOOSE i \in hits : \A k \in hits : i <= k]).v

\* the default amounts of lines 186-191
CataractDefaultAmount == 50000
SurgeryDefaultAmount  == 100000
GeneralDefaultAmount  == 25000

\* lines 185-191: the procedure-keyword default
DefaultAmount(q) ==
    IF Contains(LowerText(q.procedure.v), <<"cataract">>) THEN CataractDefaultAmount
    ELSE IF Contains(LowerText(q.procedure.v), <<"surgery">>) THEN SurgeryDefaultAmount
    ELSE GeneralDefaultAmount

\* lines 137-192: the amount of a decision that is approved at that point
ApprovedAmount(q, cs, llm_response) ==
    LET a1 == ExtractAmount(llm_response)
        a2 == IF a1 = 0 THEN SumInsuredFromChunks(cs) ELSE a1
    IN  IF a2 = 0 THEN DefaultAmount(q) ELSE a2

\* a variant whose approval keywords also count when a marker was parsed
KeywordFallback_NoMarkerGuard(decision, llm_response) ==
    LET low == LowerText(llm_response)
    IN  IF Contains(low, <<"approved">>) \/ Contains(low, <<"approve">>)
        THEN "approved" ELSE decision

\* lines 194-203: the keyword fallback, which runs after the override
KeywordFallback(decision, llm_response) ==
    LET low == LowerText(llm_response)
        marked == Contains(llm_response, <<"DECISION:">>)
    IN  IF decision = "rejected" /\ ~marked
        THEN IF Contains(low, <<"approved">>) \/ Contains(low, <<"approve">>)
             THEN "approved" ELSE decision
        ELSE IF decision = "approved" /\ ~marked
        THEN IF Contains(low, <<"rejected">>) \/ Contains(low, <<"reject">>)
             THEN "rejected" ELSE decision
        ELSE decision

\* shortest justification that is kept as it is (line 212)
MinJustificationLen == 50

\* lines 211-216: a missing or short justification is replaced
EnsureJustification(justification, decision) ==
    IF justification.kind = "llm_response" /\ CharLen(justification.text) < MinJustificationLen
    THEN IF decision = "approved"
         THEN [kind |-> "generic_approved", text |-> << >>, issues |-> << >>]
         ELSE [kind |-> "generic_rejected", text |-> << >>, issues |-> << >>]
    ELSE justification

\* a variant that overrides on waiting-period issues only
OverrideApplies_WaitingOnly(decision, found) ==
    found.waiting # << >> /\ decision = "approved"

\* lines 115-116: the override fires when the deterministic check found an
\* issue and the parsed decision is approved
OverrideApplies(decision, found) ==
    (found.waiting # << >> \/ found.exclusion # << >>) /\ decision = "approved"

\* a variant that extracts the amount whatever the decision is
AmountFor_Unguarded(decision, q, cs, llm_response) ==
    ApprovedAmount(q, cs, llm_response)

\* line 95 and the guard of line 137: only an approved decision gets an
\* amount, any other keeps the default 0
AmountFor(decision, q, cs, llm_response) ==
    IF decision = "approved" THEN ApprovedAmount(q, cs, llm_response) ELSE 0

\* lines 93-226: evaluate_claim from the LLM response to the returned dict
EvaluateResponse(q, cs, t, llm_response) ==
    LET decision0 == ParseDecision(llm_response)
        found == CheckWaitingPeriodsAndExclusions(q, cs)
        override == OverrideApplies(decision0, found)
        decision1 == IF override THEN "rejected" ELSE decision0
        justification1 ==
            IF override
            THEN [kind |-> "override", text |-> << >>,
                  issues |-> found.waiting \o found.exclusion]
            ELSE [kind |-> "llm_response", text |-> llm_response, issues |-> << >>]
        amount == AmountFor(decision1, q, cs, llm_response)
        decision2 == KeywordFallback(decision1, llm_response)
    IN  [decision |-> decision2,
         justification |-> EnsureJustification(justification1, decision2),
         amount |-> amount,
         retrieved_chunks |-> Len(cs),
         reasoning_tree |-> GetJsonBreakdown(t),
         confidence_score |-> t.confidence_score]

\* a variant that returns no trace when the call failed
EvaluateException_NoTrace(cs, t, message) ==
    [decision |-> "rejected",
     justification |-> [kind |-> "llm_error", text |-> message, issues |-> << >>],
     amount |-> 0,
     retrieved_chunks |-> Len(cs),
     reasoning_tree |-> GetJsonBreakdown(NewTree),
     confidence_score |-> NewTree.confidence_score]

\* lines 228-247: the except path of evaluate_claim
EvaluateException(cs, t, message) ==
    [decision |-> "rejected",
     justification |-> [kind |-> "llm_error", text |-> message, issues |-> << >>],
     amount |-> 0,
     retrieved_chunks |-> Len(cs),
     reasoning_tree |-> GetJsonBreakdown(t),
     confidence_score |-> t.confidence_score]

\* lines 60-82 of evaluate_claim: the statements before the try block.
\* query['procedure'] (line 60), analyze_claim (line 67) and the f-string
\* of lines 70-79 raise on an absent key or a None the checks cannot use
EvaluatePrelude(q, cs) ==
    LET a == AnalyzeClaim(q, cs)
    IN  IF q.procedure.st = "missing" THEN [ok |-> FALSE, exc |-> "KeyError", tree |-> NewTree]
        ELSE IF ~GetProcedure(q).ok THEN [ok |-> FALSE, exc |-> "AttributeError", tree |-> NewTree]
        ELSE IF ~a.ok THEN [ok |-> FALSE, exc |-> "TypeError", tree |-> NewTree]
        ELSE IF \/ q.age.st = "missing" \/ q.gender.st = "missing"
                \/ q.location.st = "missing"
                \/ q.policy_duration_months.st = "missing"
             THEN [ok |-> FALSE, exc |-> "KeyError", tree |-> NewTree]
        ELSE [ok |-> TRUE, exc |-> "none", tree |-> a.tree]

\* llm_decision.call_llm, lines 140-145: a failure of the service call is
\* caught and returned as text
CallLlmErrorText(message) == <<"Error", "calling", "LLM:">> \o message

\* ExplainableDecisionProcessor._extract_decision
ExtractDecision(llm_response) ==
    LET low == LowerText(llm_response)
    IN  IF SearchDecisionMarker(llm_response) # "none"
        THEN SearchDecisionMarker(llm_response)
        ELSE IF Contains(low, <<"approved">>) THEN "approved"
        ELSE IF Contains(low, <<"rejected">>) THEN "rejected"
        ELSE "rejected"

-----------------------------------------------------------------------------
(* Inputs of evaluate_claim *)

Procedures ==
    { <<"Cataract", "surgery">>, <<"heart", "surgery">>,
      <<"dental", "treatment">>, <<"emergency", "dental">>,
      <<"cosmetic", "surgery">>, <<"experimental", "therapy">>,
      <<"refractive", "error">>, <<"hernia", "repair">>,
      <<"accident", "injury">>, <<"appendectomy">>, << >> }

Durations == {0, 12, 24}

\* the claim dicts: every field present, an age of None (the Optional
\* default of api.models.Query), and dicts with an absent or None field
Queries ==
    LET full(p, d) == [procedure |-> p, policy_duration_months |-> d,
                       age |-> [st |-> "val"], gender |-> [st |-> "val"],
                       location |-> [st |-> "val"]]
        base == full(Val(<<"Cataract", "surgery">>), Val(12))
    IN  {full(Val(p), Val(d)) : p \in Procedures, d \in Durations}
        \cup {[base EXCEPT !.age = [st |-> "none"]]}
        \cup {full(NoneStr, Val(d)) : d \in Durations}
        \cup {full(MissingStr, Val(d)) : d \in Durations}
        \cup {full(Val(p), NoneInt) : p \in Procedures}
        \cup {full(Val(p), MissingInt) : p \in Procedures}
        \cup {[base EXCEPT !.age = [st |-> "missing"]],
              [base EXCEPT !.gender = [st |-> "missing"]],
              [base EXCEPT !.location = [st |-> "missing"]],
              [base EXCEPT !.gender = [st |-> "none"]]}

ChunkSets ==
    { << >>,
      << <<"Cataract", "surgery", "covered", "after", "24", "months">>,
         <<"Sum", "Insured", "500000">> >>,
      << <<"Accident", "claims", "are", "excluded">>,
         <<"dental", "treatment", "not", "covered">> >> }

\* a long stretch of reasoning prose, kept as one word
LongProse == "reasoning with specific clause references as the prompt asks"

ProseVocab == {"approved", "reject", LongProse}

Markers ==
    { << >>, <<"DECISION:", "APPROVED">>, <<"DECISION:", "REJECTED">>,
      <<"Decision:", "Approved">>, <<"Decision:", "Rejected">>,
      <<"DECISION:", "pending">> }

AmountParts ==
    { << >>, <<"COVERAGE", "AMOUNT:", "5000">>, <<"COVERAGE", "AMOUNT:", "0">>,
      <<"5000", "rupees">> }

\* the texts the language model may answer: a marker (or none), prose,
\* an amount part (or none)
Responses ==
    {m \o p \o a : m \in Markers, p \in SeqsUpTo(ProseVocab, MaxProse), a \in AmountParts}

\* messages of a failing service call (the second is the one call_llm
\* raises itself at line 120)
ErrorMessages ==
    { <<"timeout">>,
      <<"OPENAI_API_KEY", "environment", "variable", "not", "set">>,
      <<"model", "not", "approved", "for", "this", "account">> }

NoLlm == [outcome |-> "none", response |-> << >>, message |-> << >>]

NoResult ==
    [decision |-> "none",
     justification |-> [kind |-> "none", text |-> << >>, issues |-> << >>],
     amount |-> 0, retrieved_chunks |-> 0,
     reasoning_tree |-> GetJsonBreakdown(NewTree),
     confidence_score |-> NewTree.confidence_score]

-----------------------------------------------------------------------------
(* evaluate_claim as a state machine *)

EvalIdle ==
    /\ query = [procedure |-> Val(<< >>), policy_duration_months |-> Val(0),
                age |-> [st |-> "val"], gender |-> [st |-> "val"],
                location |-> [st |-> "val"]]
    /\ chunks = << >>
    /\ pc = "idle"
    /\ tree = NewTree
    /\ llm = NoLlm
    /\ result = NoResult
    /\ extracted = "unset"

InitEval ==
    /\ query \in Queries
    /\ chunks \in ChunkSets
    /\ pc = "start"
    /\ tree = NewTree
    /\ llm = NoLlm
    /\ result = NoResult
    /\ extracted = "unset"

\* the decision processor about to be called on a raw response
InitProcessor ==
    /\ query = [procedure |-> Val(<< >>), policy_duration_months |-> Val(0),
                age |-> [st |-> "val"], gender |-> [st |-> "val"],
                location |-> [st |-> "val"]]
    /\ chunks = << >>
    /\ pc = "process"
    /\ tree = NewTree
    /\ llm = NoLlm
    /\ result = NoResult
    /\ extracted = "unset"

\* ReasoningEngine.__init__: one engine, used for any number of claims
InitEngine ==
    /\ query = [procedure |-> Val(<< >>), policy_duration_months |-> Val(0),
                age |-> [st |-> "val"], gender |-> [st |-> "val"],
                location |-> [st |-> "val"]]
    /\ chunks = << >>
    /\ pc = "engine"
    /\ tree = NewTree
    /\ llm = NoLlm
    /\ result = NoResult
    /\ extracted = "unset"

\* one call of analyze_claim on the engine; pc tells whether the call
\* returned on a new engine ("analysed"), returned on an engine that had
\* been used before ("analysed_again"), or raised
AnalyzeClaimCall(q, cs) ==
    /\ pc \in {"engine", "analysed", "analysed_again", "analysis_raised"}
    /\ query' = q
    /\ chunks' = cs
    /\ tree' = AnalyzeClaimOn(tree, q, cs).tree
    /\ pc' = IF ~AnalyzeClaimOn(tree, q, cs).ok THEN "analysis_raised"
             ELSE IF pc = "engine" THEN "analysed" ELSE "analysed_again"
    /\ UNCHANGED <<llm, result, extracted>>

\* the claims handed to the engine: those of evaluate_claim, and claims
\* whose procedure names two excluded classes, for every duration
EngineQueries ==
    Queries \cup
    {[procedure |-> Val(<<"dental", "cosmetic", "work">>),
      policy_duration_months |-> Val(d),
      age |-> [st |-> "val"], gender |-> [st |-> "val"],
      location |-> [st |-> "val"]] : d \in Durations}

NextEngine == \E q \in EngineQueries, cs \in ChunkSets : AnalyzeClaimCall(q, cs)

\* evaluate_claim up to the call of call_llm (lines 60-89)
EvaluateClaimStart ==
    /\ pc = "start"
    /\ LET pre == EvaluatePrelude(query, chunks)
       IN  /\ pc' = IF pre.ok THEN "calling" ELSE pre.exc
           /\ tree' = pre.tree
    /\ UNCHANGED <<query, chunks, llm, result, extracted>>

\* the service answers with a text; evaluate_claim parses it and returns
CallLlmReturns(text) ==
    /\ pc = "calling"
    /\ llm' = [outcome |-> "text", response |-> text, message |-> << >>]
    /\ result' = EvaluateResponse(query, chunks, tree, text)
    /\ pc' = "returned"
    /\ UNCHANGED <<query, chunks, tree, extracted>>

\* the service call fails inside call_llm, which returns the error as
\* text; evaluate_claim parses that text like any response
CallLlmServiceFails(message) ==
    /\ pc = "calling"
    /\ llm' = [outcome |-> "service_error", response |-> CallLlmErrorText(message),
               message |-> message]
    /\ result' = EvaluateResponse(query, chunks, tree, CallLlmErrorText(message))
    /\ pc' = "returned"
    /\ UNCHANGED <<query, chunks, tree, extracted>>

\* an exception reaches evaluate_claim's try block
CallLlmRaises(message) ==
    /\ pc = "calling"
    /\ llm' = [outcome |-> "raised", response |-> << >>, message |-> message]
    /\ result' = EvaluateException(chunks, tree, message)
    /\ pc' = "returned"
    /\ UNCHANGED <<query, chunks, tree, extracted>>

\* ExplainableDecisionProcessor.process_llm_response called on a raw LLM
\* response: its first step extracts the decision
ProcessLlmResponse(text) ==
    /\ pc = "process"
    /\ llm' = [outcome |-> "text", response |-> text, message |-> << >>]
    /\ extracted' = ExtractDecision(text)
    /\ pc' = "explained"
    /\ UNCHANGED <<query, chunks, tree, result>>

NextEval ==
    \/ EvaluateClaimStart
    \/ \E text \in Responses : CallLlmReturns(text)
    \/ \E message \in ErrorMessages : CallLlmServiceFails(message)
    \/ \E message \in ErrorMessages : CallLlmRaises(message)
    \/ \E text \in Responses : ProcessLlmResponse(text)

-----------------------------------------------------------------------------
(* Chunker: utils/chunker.py.  A text is a sequence of characters. *)

Alphabet == {"a", ".", " "}

Whitespace == {" ", "\n"}

\* str.strip()
RECURSIVE LStrip(_)
LStrip(s) == IF s # << >> /\ Head(s) \in Whitespace THEN LStrip(Tail(s)) ELSE s

RECURSIVE RStrip(_)
RStrip(s) ==
    IF s # << >> /\ s[Len(s)] \in Whitespace THEN RStrip(SubSeq(s, 1, Len(s) - 1)) ELSE s

Strip(s) == RStrip(LStrip(s))

Max(a, b) == IF a >= b THEN a ELSE b
Min(a, b) == IF a <= b THEN a ELSE b

\* text[lo:hi] for 0 <= lo
Slice(text, lo, hi) == SubSeq(text, lo + 1, Min(hi, Len(text)))

\* text.rfind(ending, lo, hi): the highest 0-based position in [lo, hi)
\* where `ending` lies within the range, -1 when there is none
RFind(text, ending, lo, hi) ==
    LET top == Min(hi, Len(text))
        hits == {p \in lo..(top - Len(ending)) :
                    \A j \in 1..Len(ending) : text[p + j] = ending[j]}
    IN  IF hits = {} THEN -1 ELSE CHOOSE p \in hits : \A r \in hits : p >= r

\* sentence_endings (line 34)
SentenceEndings == << <<".">>, <<"!">>, <<"?">>, <<"\n", "\n">> >>

\* how far before the raw window end the search starts (line 30), and how
\* far past it the search reaches (line 31)
SentenceSearchBack  == 100
SentenceSearchAhead == 50

\* lines 25-44: the end of the window that starts at `start`
WindowEnd(text, start, chunk_size) ==
    LET end == start + chunk_size
        search_start == Max(start + chunk_size - SentenceSearchBack, start)
        search_end == Min(end + SentenceSearchAhead, Len(text))
        found == {RFind(text, SentenceEndings[k], search_start, search_end) :
                      k \in 1..Len(SentenceEndings)}
        last_sentence_end == CHOOSE p \in found : \A r \in found : p >= r
    IN  IF end < Len(text) /\ last_sentence_end > start + (chunk_size \div 2)
        THEN last_sentence_end + 1
        ELSE end

NextStart_Gap(end, chunk_overlap) ==
    IF end - chunk_overlap <= 0 THEN end + 1 ELSE end - chunk_overlap + 1

NextStart_Back(end, chunk_overlap) ==
    IF end - 2 * chunk_overlap <= 0 THEN end ELSE end - 2 * chunk_overlap

\* lines 51-56: the start of the next window
NextStart(end, chunk_overlap) ==
    IF end - chunk_overlap <= 0 THEN end ELSE end - chunk_overlap

ShortText_Strict(text, chunk_size) == Len(text) < chunk_size

\* line 19: the text fits into one chunk
ShortText(text, chunk_size) == Len(text) <= chunk_size

ChunkIdle ==
    /\ c_input = << >>
    /\ c_text = << >>
    /\ c_size = 1
    /\ c_overlap = 0
    /\ c_start = 0
    /\ c_chunks = << >>
    /\ c_windows = << >>
    /\ c_pc = "idle"

InitChunk ==
    /\ c_input \in SeqsUpTo(Alphabet, MaxTextLen)
    /\ c_text = c_input
    /\ c_size \in 1..MaxChunkSize
    /\ c_overlap \in 0..MaxChunkSize
    /\ c_start = 0
    /\ c_chunks = << >>
    /\ c_windows = << >>
    /\ c_pc = "begin"

\* lines 13-23: strip, the short-text return, the start of the loop
ChunkTextBegin ==
    /\ c_pc = "begin"
    /\ c_text' = Strip(c_text)
    /\ IF ShortText(Strip(c_text), c_size)
       THEN c_chunks' = << Strip(c_text) >> /\ c_pc' = "done"
       ELSE c_chunks' = << >> /\ c_pc' = "loop"
    /\ c_start' = 0
    /\ UNCHANGED <<c_input, c_size, c_overlap, c_windows>>

\* line 24: the loop condition holds and the body is entered
ChunkTextEnter ==
    /\ c_pc = "loop"
    /\ c_start < Len(c_text)
    /\ c_pc' = "body"
    /\ UNCHANGED <<c_input, c_text, c_size, c_overlap, c_start, c_chunks, c_windows>>

\* lines 25-56: the body of the while loop
ChunkTextIterate ==
    /\ c_pc = "body"
    /\ LET end == WindowEnd(c_text, c_start, c_size)
           chunk == Strip(Slice(c_text, c_start, end))
       IN  /\ c_chunks' = IF chunk # << >> /\ Len(c_chunks) < MaxRecorded
                          THEN Append(c_chunks, chunk) ELSE c_chunks
           /\ c_windows' = IF Len(c_windows) < MaxRecorded
                           THEN Append(c_windows, [start |-> c_start, end |-> end])
                           ELSE c_windows
           /\ c_start' = NextStart(end, c_overlap)
    /\ c_pc' = "loop"
    /\ UNCHANGED <<c_input, c_text, c_size, c_overlap>>

\* line 24 false, line 58: the loop ends and chunk_text returns
ChunkTextReturn ==
    /\ c_pc = "loop"
    /\ c_start >= Len(c_text)
    /\ c_pc' = "done"
    /\ UNCHANGED <<c_input, c_text, c_size, c_overlap, c_start, c_chunks, c_windows>>

NextChunk == ChunkTextBegin \/ ChunkTextEnter \/ ChunkTextIterate \/ ChunkTextReturn

-----------------------------------------------------------------------------
(* Embedder globals (retriever/embedder.py) and the upload and query      *)
(* handlers (api/routes.py).  A fitted TfidfVectorizer is its vocabulary   *)
(* (unigrams, in sorted order) and the identity of the instance; a vector  *)
(* holds the term counts over that vocabulary.                             *)

\* the terms of the modelled documents, in sorted order
TermOrder ==
    <<"accident", "cataract", "cosmetic", "covered", "dental", "excluded",
      "maternity", "period", "surgery", "treatment", "waiting">>

\* documents as chunk_text cut them
Documents ==
    { << <<"cataract", "surgery", "covered">>, <<"cataract", "waiting", "period">> >>,
      << <<"dental", "treatment", "excluded">>, <<"cosmetic", "surgery", "excluded">> >>,
      << <<"accident", "covered">>, <<"maternity", "covered">>, <<"surgery", "waiting">> >> }

QueryProcedures == { <<"cataract", "surgery">>, <<"dental", "treatment">>, <<"accident">> }

InSeq(x, s) == \E i \in 1..Len(s) : s[i] = x

\* TfidfVectorizer(min_df=1, max_df=0.9).fit: the terms of the corpus that
\* occur in at most 90% of the chunks, sorted
FitVocabulary(cs) ==
    LET df(t) == Cardinality({i \in 1..Len(cs) : InSeq(t, cs[i])})
        keep(t) == df(t) >= 1 /\ 10 * df(t) <= 9 * Len(cs)
    IN  SelectSeq(TermOrder, keep)

\* vectorizer.transform([text])[0] over a fitted vocabulary
Transform(vocabulary, text) ==
    [i \in 1..Len(vocabulary) |->
        Cardinality({k \in 1..Len(text) : text[k] = vocabulary[i]})]

\* the global `vectorizer` while it is None.  A TfidfVectorizer instance has
\* an identity (id >= 1), and holds a vocabulary once a fit has succeeded
NoVectorizer == [id |-> 0, fitted |-> FALSE, vocabulary |-> << >>]

NoEmbedCall == [op |-> "none", outcome |-> "none", value |-> << >>]

NoQuery == [status |-> 0, file_id |-> 0, vectorizer_id |-> 0,
            vocabulary |-> << >>, query_vector |-> << >>]

EmbedIdle ==
    /\ vectorizer = NoVectorizer
    /\ is_fitted = FALSE
    /\ uploaded_files = << >>
    /\ last_query = NoQuery
    /\ embed_call = NoEmbedCall

InitEmbed == EmbedIdle

\* routes.upload_file with embed_chunks(chunks, fit_vectorizer=True): the
\* global vectorizer is replaced by one fitted on this document, a new
\* VectorStore is built from its vectors and stored under a fresh file_id.
\* fitted_with records the vectorizer instance that produced the vectors.
UploadFile(doc) ==
    /\ Len(uploaded_files) < MaxUploads
    /\ LET fitted == [id |-> Len(uploaded_files) + 1, fitted |-> TRUE,
                      vocabulary |-> FitVocabulary(doc)]
           embeddings == [i \in 1..Len(doc) |-> Transform(fitted.vocabulary, doc[i])]
       IN  /\ vectorizer' = fitted
           /\ is_fitted' = TRUE
           /\ uploaded_files' = Append(uploaded_files,
                  [vector_store |-> [dimension |-> Len(fitted.vocabulary),
                                     vectors |-> embeddings, text_chunks |-> doc],
                   chunks |-> doc, embeddings |-> embeddings,
                   fitted_with |-> fitted])
    /\ UNCHANGED <<last_query, embed_call>>

\* routes.handle_query: an unknown file_id is answered with 400; otherwise
\* the procedure is embedded with the global vectorizer (embed_query) and
\* searched in the store of file_id
HandleQuery(file_id, procedure) ==
    /\ IF file_id \notin 1..Len(uploaded_files)
       THEN last_query' = [NoQuery EXCEPT !.status = 400, !.file_id = file_id]
       ELSE IF ~is_fitted \/ vectorizer = NoVectorizer
       THEN last_query' = [NoQuery EXCEPT !.status = 500, !.file_id = file_id]
       ELSE last_query' = [status |-> 200, file_id |-> file_id,
                           vectorizer_id |-> vectorizer.id,
                           vocabulary |-> vectorizer.vocabulary,
                           query_vector |-> Transform(vectorizer.vocabulary, procedure)]
    /\ UNCHANGED <<vectorizer, is_fitted, uploaded_files, embed_call>>

NextEmbed ==
    \/ \E doc \in Documents : UploadFile(doc)
    \/ \E file_id \in 1..MaxUploads, procedure \in QueryProcedures : HandleQuery(file_id, procedure)

\* TfidfVectorizer(min_df=1, max_df=0.9).fit_transform raises ValueError when
\* max_df * n_documents < min_df (a single chunk) or when no term is left
\* after pruning; the instance then holds no vocabulary
FitFails(cs) == 10 * 1 > 9 * Len(cs) \/ FitVocabulary(cs) = << >>

\* the chunk lists handed to embed_chunks directly: the modelled documents,
\* an empty list, a single chunk, and two equal chunks
ChunkLists ==
    Documents \cup
    { << >>,
      << <<"cataract", "surgery", "covered">> >>,
      << <<"dental", "treatment">>, <<"dental", "treatment">> >> }

\* embed_chunks (lines 18-42).  Outcomes: "ok"; "fit_failed", the ValueError
\* fit_transform raises at line 32; "must_be_fitted", the ValueError of
\* line 38; "NotFittedError", raised by transform at line 39 on an instance
\* without vocabulary
EmbedChunks(cs, fit_vectorizer) ==
    /\ IF cs = << >>
       THEN /\ embed_call' = [op |-> "embed_chunks", outcome |-> "ok", value |-> << >>]
            /\ UNCHANGED <<vectorizer, is_fitted>>
       ELSE IF fit_vectorizer \/ vectorizer = NoVectorizer
       THEN /\ vectorizer.id < MaxInstances
            /\ vectorizer' = [id |-> vectorizer.id + 1, fitted |-> ~FitFails(cs),
                              vocabulary |-> IF FitFails(cs) THEN << >>
                                             ELSE FitVocabulary(cs)]
            /\ IF FitFails(cs)
               THEN /\ is_fitted' = is_fitted
                    /\ embed_call' = [op |-> "embed_chunks", outcome |-> "fit_failed",
                                      value |-> << >>]
               ELSE /\ is_fitted' = TRUE
                    /\ embed_call' = [op |-> "embed_chunks", outcome |-> "ok",
                                      value |-> [i \in 1..Len(cs) |->
                                                    Transform(FitVocabulary(cs), cs[i])]]
       ELSE /\ embed_call' =
                  IF ~is_fitted
                  THEN [op |-> "embed_chunks", outcome |-> "must_be_fitted", value |-> << >>]
                  ELSE IF ~vectorizer.fitted
                  THEN [op |-> "embed_chunks", outcome |-> "NotFittedError", value |-> << >>]
                  ELSE [op |-> "embed_chunks", outcome |-> "ok",
                        value |-> [i \in 1..Len(cs) |->
                                      Transform(vectorizer.vocabulary, cs[i])]]
            /\ UNCHANGED <<vectorizer, is_fitted>>
    /\ UNCHANGED <<uploaded_files, last_query>>

\* embed_query (lines 49-56).  Outcomes: "ok"; "must_be_fitted", the
\* ValueError of line 52; "NotFittedError", raised by transform at line 55
EmbedQuery(query_text) ==
    /\ embed_call' =
          IF ~is_fitted \/ vectorizer = NoVectorizer
          THEN [op |-> "embed_query", outcome |-> "must_be_fitted", value |-> << >>]
          ELSE IF ~vectorizer.fitted
          THEN [op |-> "embed_query", outcome |-> "NotFittedError", value |-> << >>]
          ELSE [op |-> "embed_query", outcome |-> "ok",
                value |-> Transform(vectorizer.vocabulary, query_text)]
    /\ UNCHANGED <<vectorizer, is_fitted, uploaded_files, last_query>>

NextEmbedCalls ==
    \/ \E cs \in ChunkLists, fit_vectorizer \in BOOLEAN : EmbedChunks(cs, fit_vectorizer)
    \/ \E query_text \in QueryProcedures : EmbedQuery(query_text)

-----------------------------------------------------------------------------
(* VectorStore: retriever/vector_store.py.  A vector is a sequence of      *)
(* integers; a distance is the squared Euclidean distance that             *)
(* faiss.IndexFlatL2 reports.  Positions are 0-based as in the code.       *)

\* the dimension the modelled store is constructed with
StoreDimension == 2

\* VectorStore.__init__
NewStore(dimension) == [dimension |-> dimension, index |-> << >>, text_chunks |-> << >>]

NoSearch == [status |-> "none", query |-> << >>, top_k |-> 0, threshold |-> 0,
             labels |-> << >>, results |-> << >>]

\* chunks a caller stores, and the embedding the caller computed for each
\* (routes.upload_file embeds the chunks and hands both lists to add)
StoreChunks == {"c10", "c101", "c0"}

EmbeddingOf(c) ==
    CASE c = "c10"  -> <<1, 0>>
      [] c = "c101" -> <<1, 0, 1>>
      [] c = "c0"   -> <<0>>

\* the argument lists of one add call: the embeddings of a list of chunks,
\* of equal or of different lengths, or no embedding
EmbeddedBatches == SeqsUpTo(StoreChunks, MaxBatch)

\* line 14: np.array(embeddings).astype("float32") needs a rectangular
\* input and raises ValueError when the embeddings differ in length
Ragged(embeddings) ==
    \E i, j \in 1..Len(embeddings) : Len(embeddings[i]) # Len(embeddings[j])

\* the chunks argument handed over with the embeddings of batch b: the
\* chunks themselves, one chunk fewer, or one chunk more
ChunkArguments(b) ==
    {b, b \o <<"c10">>} \cup (IF b = << >> THEN {} ELSE {SubSeq(b, 1, Len(b) - 1)})

\* lines 17-26 and 48-53: pad with zeros or truncate to the dimension
Reconcile(v, dimension) == [i \in 1..dimension |-> IF i <= Len(v) THEN v[i] ELSE 0]

\* VectorStore.add (lines 10-30)
AddToStore(st, embeddings, cs) ==
    IF Len(embeddings) = 0
    THEN st
    ELSE [st EXCEPT
            !.index = @ \o [i \in 1..Len(embeddings) |-> Reconcile(embeddings[i], st.dimension)],
            !.text_chunks = @ \o cs]

\* squared L2 distance of two vectors of the same length
L2(u, v) == SeqSum([i \in 1..Len(u) |-> (u[i] - v[i]) * (u[i] - v[i])])

\* the distance faiss reports next to the label -1 of a missing neighbour
\* (the largest float32), above every threshold of the model
FloatMax == 1000

LabelDistance(st, q, label) == IF label < 0 THEN FloatMax ELSE L2(st.index[label + 1], q)

\* index.search(query, k): every label row faiss may return.  The stored
\* vectors nearest to q come first in ascending distance, equal distances in
\* any order; when the index holds fewer than k vectors the row is filled
\* with -1
NearestLabels(st, q, k) ==
    LET ntotal == Len(st.index)
        m == Min(k, ntotal)
    IN  { row \in [1..k -> (-1)..(ntotal - 1)] :
            /\ \A j \in 1..k : (row[j] = -1) <=> (j > m)
            /\ \A i, j \in 1..m : i # j => row[i] # row[j]
            /\ \A j \in 1..(m - 1) :
                  LabelDistance(st, q, row[j]) <= LabelDistance(st, q, row[j + 1])
            /\ \A x \in 0..(ntotal - 1) :
                  (\A j \in 1..m : row[j] # x)
                      => \A j \in 1..m : LabelDistance(st, q, row[j]) <= LabelDistance(st, q, x) }

\* text_chunks[idx] with Python's negative indexing
ChunkAt(st, idx) ==
    IF idx >= 0 THEN st.text_chunks[idx + 1]
    ELSE st.text_chunks[Len(st.text_chunks) + idx + 1]

\* the loops of lines 60-64 (filtered) and 70-74 (not filtered): the chunks
\* of the first top_k labels of the row that pass the test
CollectResults(st, q, row, top_k, distance_threshold, filtered) ==
    LET ok(j) == /\ row[j] < Len(st.text_chunks)
                 /\ filtered => LabelDistance(st, q, row[j]) < distance_threshold
        kept == SelectSeq([j \in 1..Len(row) |-> j], ok)
        taken == SubSeq(kept, 1, Min(top_k, Len(kept)))
    IN  [j \in 1..Len(taken) |-> ChunkAt(st, row[taken[j]])]

\* VectorStore.search (lines 41-76) for one label row of the index
SearchResults(st, q, row, top_k, distance_threshold) ==
    LET results == CollectResults(st, q, row, top_k, distance_threshold, TRUE)
    IN  IF Len(results) = 0
        THEN CollectResults(st, q, row, top_k, distance_threshold, FALSE)
        ELSE results

\* query vectors, top_k values and thresholds of the modelled search calls
QueryVectors == {<<1, 0>>, <<1, 1>>, <<1, 0, 1>>, <<0>>}
GenerousThreshold == 5
Thresholds == {0, 2, GenerousThreshold}

StoreIdle ==
    /\ store = NewStore(StoreDimension)
    /\ searched = NoSearch

InitStore == StoreIdle

\* one call of VectorStore.add
Add(embedded, cs) ==
    /\ Len(store.index) + Len(embedded) <= MaxStored
    /\ Len(store.text_chunks) + Len(cs) <= MaxStored
    /\ LET embeddings == [i \in 1..Len(embedded) |-> EmbeddingOf(embedded[i])]
       IN  IF Ragged(embeddings)
           THEN /\ store' = store
                /\ searched' = [NoSearch EXCEPT !.status = "ValueError"]
           ELSE /\ store' = AddToStore(store, embeddings, cs)
                /\ searched' = NoSearch

\* one call of VectorStore.search
Search(query_embedding, top_k, distance_threshold) ==
    /\ IF Len(store.text_chunks) = 0
       THEN searched' = [status |-> "ok", query |-> query_embedding, top_k |-> top_k,
                      threshold |-> distance_threshold,
                      labels |-> << >>, results |-> << >>]
       ELSE LET q == Reconcile(query_embedding, store.dimension)
                k == Min(top_k * 2, Len(store.text_chunks))
            IN  \E row \in NearestLabels(store, q, k) :
                   searched' = [status |-> "ok", query |-> query_embedding,
                             top_k |-> top_k, threshold |-> distance_threshold,
                             labels |-> row,
                             results |-> SearchResults(store, q, row, top_k,
                                                       distance_threshold)]
    /\ UNCHANGED store

NextStore ==
    \/ \E b \in EmbeddedBatches : \E cs \in ChunkArguments(b) : Add(b, cs)
    \/ \E q \in QueryVectors, top_k \in 1..MaxTopK, t \in Thresholds : Search(q, top_k, t)

-----------------------------------------------------------------------------
(* MultiDocumentStore: retriever/multi_document_store.py.  documents is    *)
(* kept as the sequence of its values in insertion order, the document at  *)
(* position k having the id number k - 1; vector_stores is the sequence of *)
(* the stores of the first documents (finalize_documents assigns them in   *)
(* document order); global_vector_store is << >> while it is None.         *)

\* lines 29-35 (pending_chunks, created by add_document, is << >> until then)
NewMultiDocumentStore ==
    [documents |-> << >>, vector_stores |-> << >>, global_vector_store |-> << >>,
     global_chunks |-> << >>, global_embeddings |-> << >>,
     document_mapping |-> << >>, pending_chunks |-> << >>,
     last |-> [op |-> "none", outcome |-> "none"]]

\* what chunk_text(read_document(file_path)) returns for the modelled files:
\* two chunks, three chunks, and a short file that is a single chunk
MultiDocuments ==
    { << <<"cataract", "surgery", "covered">>, <<"cataract", "waiting", "period">> >>,
      << <<"accident", "covered">>, <<"maternity", "covered">>, <<"accident", "waiting">> >>,
      << <<"cataract", "surgery", "covered">> >> }

MultiIdle == mds = NewMultiDocumentStore

InitMulti == mds = NewMultiDocumentStore

\* add_document (lines 37-87); exists is os.path.exists(file_path)
AddDocument(doc, exists) ==
    /\ Len(mds.documents) < MaxDocuments
    /\ IF ~exists
       THEN mds' = [mds EXCEPT !.last = [op |-> "add_document", outcome |-> "FileNotFoundError"]]
       ELSE LET doc_id == Len(mds.documents)
            IN  mds' = [mds EXCEPT
                   !.documents = Append(@, [document_id |-> doc_id, chunk_count |-> Len(doc)]),
                   !.global_chunks = @ \o doc,
                   !.document_mapping = @ \o [i \in 1..Len(doc) |-> <<doc_id, i - 1>>],
                   !.pending_chunks = @ \o doc,
                   !.last = [op |-> "add_document", outcome |-> "ok"]]
    /\ UNCHANGED <<vectorizer, is_fitted>>

\* the loop of lines 104-118 from the k-th document on: the store after
\* the loop, or after the IndexError of doc_embeddings[0] on an empty slice
RECURSIVE FinalizeFrom(_, _, _, _)
FinalizeFrom(m, all_embeddings, k, chunk_start) ==
    IF k > Len(m.documents)
    THEN [raised |-> "none", m |-> m]
    ELSE LET chunk_count == m.documents[k].chunk_count
             doc_chunks == Slice(m.global_chunks, chunk_start, chunk_start + chunk_count)
             doc_embeddings == Slice(all_embeddings, chunk_start, chunk_start + chunk_count)
         IN  IF doc_embeddings = << >>
             THEN [raised |-> "IndexError", m |-> m]
             ELSE LET individual_store ==
                          AddToStore(NewStore(Len(doc_embeddings[1])), doc_embeddings, doc_chunks)
                      stored == [m EXCEPT
                          !.vector_stores = IF k <= Len(@) THEN [@ EXCEPT ![k] = individual_store]
                                            ELSE Append(@, individual_store),
                          !.global_embeddings = @ \o doc_embeddings]
                  IN  FinalizeFrom(stored, all_embeddings, k + 1, chunk_start + chunk_count)

\* finalize_documents (lines 89-128), with the embed_chunks call of line 101
\* on the embedder globals
FinalizeDocuments ==
    IF mds.pending_chunks = << >>
    THEN /\ mds' = [mds EXCEPT !.last = [op |-> "finalize_documents", outcome |-> "nothing"]]
         /\ UNCHANGED <<vectorizer, is_fitted>>
    ELSE /\ vectorizer.id < MaxInstances
         /\ vectorizer' = [id |-> vectorizer.id + 1, fitted |-> ~FitFails(mds.pending_chunks),
                           vocabulary |-> IF FitFails(mds.pending_chunks) THEN << >>
                                          ELSE FitVocabulary(mds.pending_chunks)]
         /\ IF FitFails(mds.pending_chunks)
            THEN /\ is_fitted' = is_fitted
                 /\ mds' = [mds EXCEPT !.last = [op |-> "finalize_documents", outcome |-> "ValueError"]]
            ELSE /\ is_fitted' = TRUE
                 /\ LET all_embeddings ==
                            [i \in 1..Len(mds.pending_chunks) |->
                                Transform(FitVocabulary(mds.pending_chunks), mds.pending_chunks[i])]
                        looped == FinalizeFrom(mds, all_embeddings, 1, 0)
                        m == looped.m
                        global == NewStore(Len(m.global_embeddings[1]))
                    IN  IF looped.raised # "none"
                        THEN mds' = [m EXCEPT !.last = [op |-> "finalize_documents",
                                                        outcome |-> looped.raised]]
                        ELSE IF m.global_embeddings = << >>
                        THEN mds' = [m EXCEPT !.pending_chunks = << >>,
                                              !.last = [op |-> "finalize_documents",
                                                        outcome |-> "ok"]]
                        ELSE IF Ragged(m.global_embeddings)
                        THEN mds' = [m EXCEPT !.global_vector_store = << global >>,
                                              !.last = [op |-> "finalize_documents",
                                                        outcome |-> "ValueError"]]
                        ELSE mds' = [m EXCEPT
                                !.global_vector_store =
                                    << AddToStore(global, m.global_embeddings, m.global_chunks) >>,
                                !.pending_chunks = << >>,
                                !.last = [op |-> "finalize_documents", outcome |-> "ok"]]

NextMulti ==
    \/ \E doc \in MultiDocuments, exists \in BOOLEAN : AddDocument(doc, exists)
    \/ FinalizeDocuments

-----------------------------------------------------------------------------
(* Specifications *)

\* evaluate_claim on every modelled claim, chunk set and LLM outcome, and
\* the decision processor on every modelled response
Init == (InitEval \/ InitProcessor) /\ ChunkIdle /\ EmbedIdle /\ StoreIdle /\ MultiIdle
Next == NextEval /\ UNCHANGED chunkVars /\ UNCHANGED embedVars /\ UNCHANGED storeVars /\ UNCHANGED multiVars
Spec == Init /\ [][Next]_vars

\* chunk_text on every text, chunk_size and chunk_overlap within the bounds
InitChunker == EvalIdle /\ InitChunk /\ EmbedIdle /\ StoreIdle /\ MultiIdle
NextChunker == NextChunk /\ UNCHANGED evalVars /\ UNCHANGED embedVars /\ UNCHANGED storeVars /\ UNCHANGED multiVars
SpecChunk == InitChunker /\ [][NextChunker]_vars
\* the loop of chunk_text keeps running while its condition holds
FairSpecChunk == SpecChunk /\ WF_vars(NextChunker)

\* chunk_text called with 0 <= chunk_overlap <= chunk_size // 2, as with the
\* defaults (800, 200)
InitHalfOverlap == InitChunker /\ c_overlap <= c_size \div 2
FairSpecHalfOverlap == InitHalfOverlap /\ [][NextChunker]_vars /\ WF_vars(NextChunker)

\* uploads and queries in any order
InitUploads == EvalIdle /\ ChunkIdle /\ InitEmbed /\ StoreIdle /\ MultiIdle
NextUploads == NextEmbed /\ UNCHANGED evalVars /\ UNCHANGED chunkVars /\ UNCHANGED storeVars /\ UNCHANGED multiVars
SpecEmbed == InitUploads /\ [][NextUploads]_vars

\* one ReasoningEngine analysing claim after claim
InitReasoner == InitEngine /\ ChunkIdle /\ EmbedIdle /\ StoreIdle /\ MultiIdle
NextReasoner == NextEngine /\ UNCHANGED chunkVars /\ UNCHANGED embedVars /\ UNCHANGED storeVars /\ UNCHANGED multiVars
SpecReasoner == InitReasoner /\ [][NextReasoner]_vars

\* embed_chunks and embed_query calls in any order
InitEmbedCalls == EvalIdle /\ ChunkIdle /\ InitEmbed /\ StoreIdle /\ MultiIdle
NextEmbedCallsOnly == NextEmbedCalls /\ UNCHANGED evalVars /\ UNCHANGED chunkVars /\ UNCHANGED storeVars /\ UNCHANGED multiVars
SpecEmbedCalls == InitEmbedCalls /\ [][NextEmbedCallsOnly]_vars

\* add and search calls on one VectorStore, in any order
InitStores == EvalIdle /\ ChunkIdle /\ EmbedIdle /\ InitStore /\ MultiIdle
NextStores == NextStore /\ UNCHANGED evalVars /\ UNCHANGED chunkVars /\ UNCHANGED embedVars /\ UNCHANGED multiVars
SpecStore == InitStores /\ [][NextStores]_vars

\* add_document and finalize_documents calls on one MultiDocumentStore, in
\* any order
InitMultiStore == EvalIdle /\ ChunkIdle /\ EmbedIdle /\ StoreIdle /\ InitMulti
NextMultiStore ==
    NextMulti /\ UNCHANGED evalVars /\ UNCHANGED chunkVars /\ UNCHANGED storeVars
              /\ UNCHANGED <<uploaded_files, last_query, embed_call>>
SpecMulti == InitMultiStore /\ [][NextMultiStore]_vars

-----------------------------------------------------------------------------
(* Claims about evaluate_claim, checked under Spec *)

\* C1 as stated: whenever the Claim Reasoner's trace holds a failed
\* waiting-period or exclusion step and the marker parsed from the LLM
\* response is APPROVED, evaluate_claim returns rejected with amount 0.
C1_TraceFailureOverridesApproval ==
    ( /\ pc = "returned"
      /\ llm.outcome = "text"
      /\ \E i \in 1..Len(tree.nodes) :
            tree.nodes[i].step \in {"WAITING_PERIOD_NOT_MET", "EXCLUSION_FOUND"}
      /\ ParseDecision(llm.response) = "approved" )
    => (result.decision = "rejected" /\ result.amount = 0)

\* C1 as amended: whenever the evaluator's own deterministic check
\* (check_waiting_periods_and_exclusions) reports a waiting-period or an
\* exclusion issue and the marker parsed from the LLM response is APPROVED,
\* evaluate_claim returns rejected with amount 0.
C1_CheckIssueOverridesApproval ==
    ( /\ pc = "returned"
      /\ llm.outcome = "text"
      /\ \/ CheckWaitingPeriodsAndExclusions(query, chunks).waiting # << >>
         \/ CheckWaitingPeriodsAndExclusions(query, chunks).exclusion # << >>
      /\ ParseDecision(llm.response) = "approved" )
    => (result.decision = "rejected" /\ result.amount = 0)

\* an approval of the model overridden because of an exclusion issue alone
C1_Witness ==
    /\ pc = "returned"
    /\ llm.outcome = "text"
    /\ ParseDecision(llm.response) = "approved"
    /\ CheckWaitingPeriodsAndExclusions(query, chunks).waiting = << >>
    /\ CheckWaitingPeriodsAndExclusions(query, chunks).exclusion # << >>
    /\ result.decision = "rejected"
    /\ result.justification.kind = "override"

\* C2: whenever check_waiting_periods_and_exclusions reports an issue,
\* evaluate_claim returns rejected with amount 0 for every LLM response
\* text, with or without a DECISION: marker.
C2_DeterministicRejectionWins ==
    ( /\ pc = "returned"
      /\ llm.outcome = "text"
      /\ \/ CheckWaitingPeriodsAndExclusions(query, chunks).waiting # << >>
         \/ CheckWaitingPeriodsAndExclusions(query, chunks).exclusion # << >> )
    => (result.decision = "rejected" /\ result.amount = 0)

\* C3: a response without a structured decision marker that holds neither
\* an approval nor a rejection keyword, or holds both, is parsed as
\* rejected by evaluate_claim and by _extract_decision.
C3_FailClosedParsing ==
    ( /\ pc \in {"returned", "explained"}
      /\ llm.outcome = "text"
      /\ ~Contains(llm.response, <<"DECISION:">>)
      /\ SearchDecisionMarker(llm.response) = "none"
      /\ Contains(LowerText(llm.response), <<"approve">>)
            <=> Contains(LowerText(llm.response), <<"reject">>) )
    => ( /\ pc = "returned" => result.decision = "rejected"
         /\ pc = "explained" => extracted = "rejected" )

\* C4: in every returned record, decision = rejected implies amount = 0.
C4_RejectedHasZeroAmount ==
    pc = "returned" => (result.decision = "rejected" => result.amount = 0)

\* a rejection returned for a response that names a positive amount, with
\* chunks that hold a sum insured
C4_Witness ==
    /\ pc = "returned"
    /\ llm.outcome = "text"
    /\ result.decision = "rejected"
    /\ ExtractAmount(llm.response) > 0
    /\ SumInsuredFromChunks(chunks) > 0

\* C5: a response that carries DECISION: and whose first marker is
\* DECISION: REJECTED is returned as rejected, whatever the claim, the
\* chunks and the rest of the response are.
C5_ModelRejectionStands ==
    ( /\ pc = "returned"
      /\ llm.outcome = "text"
      /\ Contains(llm.response, <<"DECISION:">>)
      /\ SearchDecisionMarker(llm.response) = "rejected" )
    => result.decision = "rejected"

\* a rejection marker followed by the word approved, for a claim whose
\* reasoning steps all pass
C5_Witness ==
    /\ pc = "returned"
    /\ llm.outcome = "text"
    /\ Contains(llm.response, <<"DECISION:">>)
    /\ SearchDecisionMarker(llm.response) = "rejected"
    /\ Contains(LowerText(llm.response), <<"approved">>)
    /\ tree.final_decision = "APPROVED"
    /\ result.decision = "rejected"

\* C6: when the language-model call fails (it raises into evaluate_claim or
\* the service call fails inside call_llm), the result is rejected with
\* amount 0, its justification names the failure, and it carries the
\* reasoning trace and the confidence score.
C6_LlmFailureIsRejected ==
    (pc = "returned" /\ llm.outcome \in {"raised", "service_error"})
    => ( /\ result.decision = "rejected"
         /\ result.amount = 0
         /\ \/ result.justification.kind = "llm_error" /\ result.justification.text = llm.message
            \/ /\ result.justification.kind = "llm_response"
               /\ result.justification.text = CallLlmErrorText(llm.message)
         /\ result.reasoning_tree = GetJsonBreakdown(tree)
         /\ result.confidence_score = tree.confidence_score )

\* C7: the reasoning trace and the confidence score of every returned
\* record are those analyze_claim computes from the claim and the chunks
\* alone, so two evaluations that differ only in the LLM outcome return
\* the same trace and score; the score is always populated.
C7_TraceIndependentOfLlm ==
    pc = "returned"
    => ( /\ result.reasoning_tree = GetJsonBreakdown(AnalyzeClaim(query, chunks).tree)
         /\ result.confidence_score = AnalyzeClaim(query, chunks).tree.confidence_score
         /\ result.confidence_score.num > 0
         /\ result.confidence_score.den > 0
         /\ result.reasoning_tree.final_decision # "PENDING" )

\* a record returned after the call raised, with its four-step trace
C7_Witness ==
    /\ pc = "returned"
    /\ llm.outcome = "raised"
    /\ Len(result.reasoning_tree.reasoning_tree) = 4
    /\ result.confidence_score.num > 0

\* C8: evaluate_claim never raises, whatever fields of the claim are absent
\* or None.
C8_EvaluateNeverRaises == pc \notin {"KeyError", "AttributeError", "TypeError"}

-----------------------------------------------------------------------------
(* Claims about the embedder's fit state, checked under SpecEmbed *)

\* C9: in every interleaving of uploads and queries, a query answered
\* against the index of a document is embedded with the vocabulary that
\* index was built with, also when another document was uploaded and
\* fitted in between.
C9_EmbedderIsolation ==
    last_query.status = 200
    => last_query.vocabulary = uploaded_files[last_query.file_id].fitted_with.vocabulary

-----------------------------------------------------------------------------
(* Claims about chunk_text, checked under SpecChunk / FairSpecChunk *)

\* C10: chunk_text terminates for every text, every chunk_size >= 1 and
\* every chunk_overlap >= 0: the window start eventually reaches len(text)
\* and the function returns.
C10_ChunkTextTerminates == <>(c_pc = "done")

\* C11: whenever chunk_text returns, no returned chunk is empty or
\* whitespace-only, for every input text (the empty and the blank text
\* included), chunk_size and chunk_overlap.
C11_NoEmptyChunk ==
    c_pc = "done" => \A i \in 1..Len(c_chunks) : Strip(c_chunks[i]) # << >>

\* C12: for every top_k >= 1, query vector and distance_threshold, search
\* returns an empty sequence exactly when the store holds no chunks.
C12_FallbackGuarantee ==
    searched.status = "ok" =>
        (searched.results = << >> <=> Len(store.text_chunks) = 0)

\* C13: in every store state reached by add calls, a search with a stored
\* vector as the query, any top_k >= 1 and a threshold above every distance
\* returns a result that contains the chunk stored with that vector.
C13_IndexRoundTrip ==
    (searched.status = "ok" /\ searched.threshold = GenerousThreshold) =>
        \A i \in 1..Len(store.index) :
            store.index[i] = Reconcile(searched.query, store.dimension) =>
                /\ i <= Len(store.text_chunks)
                /\ InSeq(store.text_chunks[i], searched.results)

\* C14: after any sequence of add calls the store holds as many vectors as
\* chunks and vector i is the embedding handed over for chunk i.
C14_ParallelSequences ==
    /\ Len(store.index) = Len(store.text_chunks)
    /\ \A i \in 1..Len(store.index) :
          store.index[i] = Reconcile(EmbeddingOf(store.text_chunks[i]), store.dimension)

\* C15: in every state reached by embed_chunks and embed_query calls,
\* embed_query fails, with the unfitted-model error, exactly when no fit has
\* been performed yet, and it changes neither the fit state nor the
\* vocabulary.
C15_EmbedQueryLifecycle ==
    /\ [](embed_call.op = "embed_query" =>
            /\ embed_call.outcome # "ok" <=> ~is_fitted
            /\ embed_call.outcome \in {"ok", "must_be_fitted"})
    /\ [][(\E query_text \in QueryProcedures : EmbedQuery(query_text))
            => UNCHANGED <<vectorizer, is_fitted>>]_vars

\* C16: after analyze_claim the final decision of the trace is APPROVED
\* exactly when every step has passed and REJECTED otherwise, never PENDING,
\* whatever the confidences of the steps.
C16_StrictAnd ==
    pc \in {"analysed", "analysed_again"} =>
        tree.final_decision =
            IF \A i \in 1..Len(tree.nodes) : tree.nodes[i].status
            THEN "APPROVED" ELSE "REJECTED"

\* C16 witness: a trace with three passed steps and one failed step, each
\* with a confidence of at least 80%, that analyze_claim rejected
C16_Witness ==
    /\ pc \in {"analysed", "analysed_again"}
    /\ Cardinality({i \in 1..Len(tree.nodes) : tree.nodes[i].status}) = 3
    /\ Cardinality({i \in 1..Len(tree.nodes) : ~tree.nodes[i].status}) = 1
    /\ \A i \in 1..Len(tree.nodes) : tree.nodes[i].confidence >= 80
    /\ tree.final_decision = "REJECTED"

\* C17: every call of analyze_claim returns the trace, decision and
\* confidence that a new engine returns for the same claim and chunks, also
\* on an engine that has analysed other claims before.
C17_ReasonerDeterminism ==
    pc \in {"analysed", "analysed_again"} =>
        /\ AnalyzeClaim(query, chunks).ok
        /\ tree = AnalyzeClaim(query, chunks).tree

\* C17 witness: a call that returned an approving four-step trace on an
\* engine that had been used before
C17_Witness ==
    /\ pc = "analysed_again"
    /\ Len(tree.nodes) = 4
    /\ tree.final_decision = "APPROVED"

\* C18: whenever chunk_text returns, the windows it cut leave no gap (the
\* first starts at 0, each next one starts at or before the end of the one
\* before, the last ends at or after the end of the text) and every
\* non-whitespace character of the input lies in a returned chunk.
C18_ChunkCoverage ==
    c_pc = "done" =>
        /\ c_text = Strip(c_input)
        /\ IF ShortText(c_text, c_size)
           THEN c_windows = << >> /\ c_chunks = <<c_text>>
           ELSE /\ c_windows # << >>
                /\ c_windows[1].start = 0
                /\ \A j \in 1..(Len(c_windows) - 1) :
                      c_windows[j + 1].start <= c_windows[j].end
                /\ c_windows[Len(c_windows)].end >= Len(c_text)
                /\ \A p \in 1..Len(c_text) :
                      c_text[p] \notin Whitespace =>
                          \E j \in 1..Len(c_windows) :
                              /\ c_windows[j].start < p
                              /\ p <= c_windows[j].end
                              /\ InSeq(Strip(Slice(c_text, c_windows[j].start,
                                                   c_windows[j].end)), c_chunks)

\* C18 witness: a returned run of several overlapping windows, one of them
\* cut at a sentence boundary, over a text with inner whitespace
C18_Witness ==
    /\ c_pc = "done"
    /\ c_overlap >= 1
    /\ Len(c_windows) >= 2
    /\ \E j \in 1..Len(c_windows) : c_windows[j].end # c_windows[j].start + c_size
    /\ \E p \in 1..Len(c_text) : c_text[p] \in Whitespace

\* C19 as stated: a text no longer than chunk_size is returned unchanged as
\* the sole chunk.
C19_ShortTextReturnedUnchanged ==
    (c_pc = "done" /\ Len(c_input) <= c_size) => c_chunks = <<c_input>>

\* C19 amended: a text whose stripped form is no longer than chunk_size is
\* returned as the sole chunk in its stripped form.
C19_ShortTextReturnedStripped ==
    (c_pc = "done" /\ Len(Strip(c_input)) <= c_size) => c_chunks = <<Strip(c_input)>>

\* C19 witness: a text longer than chunk_size with surrounding whitespace
\* whose stripped form fits, returned as one chunk
C19_Witness ==
    /\ c_pc = "done"
    /\ Len(c_input) > c_size
    /\ Strip(c_input) # c_input
    /\ Strip(c_input) # << >>
    /\ Len(Strip(c_input)) = c_size
    /\ c_chunks = <<Strip(c_input)>>

\* C20: every chunk chunk_text returns is at most chunk_size characters
\* long, also when the cut was moved to a sentence boundary.
C20_ChunkLengthBounded ==
    c_pc = "done" => \A i \in 1..Len(c_chunks) : Len(c_chunks[i]) <= c_size

\* C23: the waiting-period step, the second of the trace, passes
\* with confidence 0.8 when the lower-cased procedure contains no key of the
\* waiting-period table; when it contains a key it passes exactly when the
\* policy duration is at least the months of the first such entry, and its
\* confidence is 0.95 whether it passes or fails.
C23_WaitingPeriodByKey ==
    pc \in {"analysed", "analysed_again"} =>
        LET p == GetProcedure(query).v
            d == GetDuration(query).v
            keys == {i \in 1..Len(WaitingPeriods) : Contains(p, WaitingPeriods[i].proc)}
            entry == WaitingPeriods[CHOOSE i \in keys : \A k \in keys : i <= k]
            node == tree.nodes[2]
        IN  IF keys = {}
            THEN node.status /\ node.confidence = 80
            ELSE /\ node.status <=> d >= entry.period
                 /\ node.confidence = 95

\* C24: when the lower-cased procedure contains an excluded class (cosmetic,
\* dental, experimental, refractive), whatever the duration and the chunks,
\* the exclusion step, the third of the trace, fails with the reason of the
\* first matching class and confidence 0.9 and the final decision is
\* REJECTED; for every other procedure the exclusion step passes.
C24_ExclusionStep ==
    pc \in {"analysed", "analysed_again"} =>
        LET p == GetProcedure(query).v
            classes == {i \in 1..Len(Exclusions) : Contains(p, Exclusions[i].type)}
            first == CHOOSE i \in classes : \A k \in classes : i <= k
            node == tree.nodes[3]
        IN  IF classes # {}
            THEN /\ node.step = "EXCLUSION_FOUND"
                 /\ ~node.status
                 /\ node.details.kind = Exclusions[first].reason
                 /\ node.confidence = 90
                 /\ tree.final_decision = "REJECTED"
            ELSE /\ node.step = "NO_EXCLUSION"
                 /\ node.status

\* C24 witness: a procedure naming two excluded classes, held for 24 months,
\* rejected with the cosmetic reason while the policy-active step passed
C24_Witness ==
    /\ pc \in {"analysed", "analysed_again"}
    /\ Contains(GetProcedure(query).v, <<"dental">>)
    /\ Contains(GetProcedure(query).v, <<"cosmetic">>)
    /\ GetDuration(query).v = 24
    /\ tree.nodes[3].details.kind = Exclusions[1].reason
    /\ tree.nodes[4].status
    /\ tree.final_decision = "REJECTED"

\* C25: the trace returned by analyze_claim has exactly four steps, in the
\* order procedure coverage, waiting period, exclusion, policy active, also
\* for an empty chunk sequence; the policy-active step passes exactly when
\* the policy duration is above 0.
C25_FourStepsInOrder ==
    pc \in {"analysed", "analysed_again"} =>
        /\ Len(tree.nodes) = 4
        /\ tree.nodes[1].step = "PROCEDURE_MATCHED"
        /\ tree.nodes[2].step \in {"WAITING_PERIOD_MET", "WAITING_PERIOD_NOT_MET"}
        /\ tree.nodes[3].step \in {"EXCLUSION_FOUND", "NO_EXCLUSION"}
        /\ tree.nodes[4].step = "POLICY_ACTIVE"
        /\ tree.nodes[4].status <=> GetDuration(query).v > 0

\* C25 witness: a claim with a duration of 0 months analysed against no
\* chunks: four steps, the last one failed
C25_Witness ==
    /\ pc \in {"analysed", "analysed_again"}
    /\ chunks = << >>
    /\ query.policy_duration_months = Val(0)
    /\ Len(tree.nodes) = 4
    /\ ~tree.nodes[4].status

\* C26: the overall confidence of a returned trace is the sum of
\* weight * confidence over its steps divided by the sum of the weights,
\* with weight 0.25 for the procedure step, 0.30 for the waiting-period step
\* whether met or not, 0.25 for a no-exclusion step and 0.1 for every other
\* step, and it lies in [0, 1].
C26_ConfidenceWeights ==
    pc \in {"analysed", "analysed_again"} =>
        LET weight(i) == CASE i = 1 -> 25
                           [] i = 2 -> 30
                           [] i = 3 /\ tree.nodes[3].step = "NO_EXCLUSION" -> 25
                           [] OTHER -> 10
            total == weight(1) + weight(2) + weight(3) + weight(4)
            sum == weight(1) * tree.nodes[1].confidence
                   + weight(2) * tree.nodes[2].confidence
                   + weight(3) * tree.nodes[3].confidence
                   + weight(4) * tree.nodes[4].confidence
            score == tree.confidence_score
        IN  /\ score.num * total = sum * score.den
            /\ 0 <= score.num
            /\ score.num <= 100 * score.den

\* C27: every record evaluate_claim returns with decision approved carries
\* an amount above 0, on every path that ends in approved, approval by
\* keyword fallback included.
C27_ApprovedHasAmount ==
    pc = "returned" => (result.decision = "approved" => result.amount > 0)

\* C28: after any sequence of embed_chunks and embed_query calls, is_fitted
\* is true only if the vectorizer held at that moment has itself been
\* fitted: a failed fit leaves a previously fitted vocabulary in place, and
\* a failed first fit leaves the embedder unfit.
C28_FittedFlagMatchesVectorizer ==
    is_fitted => (vectorizer.fitted /\ vectorizer.vocabulary # << >>)

\* C30: when 0 <= chunk_overlap <= chunk_size // 2 (the calls of
\* FairSpecHalfOverlap), every iteration of the loop of chunk_text moves the
\* window start strictly forward, the number of iterations never exceeds
\* the length of the (stripped) text, and chunk_text returns.
C30_StrictProgress ==
    /\ [][c_pc = "body" => c_start' > c_start]_vars
    /\ [](Len(c_windows) <= Len(c_text))
    /\ <>(c_pc = "done")

\* C30 witness: chunk_text has returned after at least two iterations with
\* an overlap of at least 1 and at most half the chunk size
C30_Witness ==
    /\ c_pc = "done"
    /\ c_overlap >= 1
    /\ c_overlap <= c_size \div 2
    /\ Len(c_windows) >= 2

\* C21: a search on a store in which every chunk has its vector returns
\* what the reference returns: with the N stored chunks in ascending order
\* of distance to the query (equal distances in some order), C is the first
\* min(2 * top_k, N) of them; the result is the first top_k chunks of C
\* with a distance strictly below the threshold when there is one, and the
\* first top_k chunks of C otherwise.
C21_SearchMatchesReference ==
    (searched.status = "ok" /\ Len(store.text_chunks) <= Len(store.index)) =>
        LET N == Len(store.text_chunks)
            q == Reconcile(searched.query, store.dimension)
            dist(i) == L2(store.index[i], q)
            orders == { o \in [1..N -> 1..N] :
                          /\ \A i, j \in 1..N : i # j => o[i] # o[j]
                          /\ \A j \in 1..(N - 1) : dist(o[j]) <= dist(o[j + 1]) }
            below(i) == dist(i) < searched.threshold
        IN  \E o \in orders :
               LET C == SubSeq(o, 1, Min(2 * searched.top_k, N))
                   near == SelectSeq(C, below)
                   picked == IF near # << >>
                             THEN SubSeq(near, 1, Min(searched.top_k, Len(near)))
                             ELSE SubSeq(C, 1, Min(searched.top_k, Len(C)))
               IN  searched.results = [j \in 1..Len(picked) |-> store.text_chunks[picked[j]]]

\* C22: add and search never fail because of the length of a vector, every
\* stored vector has exactly `dimension` components (shorter ones padded
\* with zeros, longer ones cut), and the dimension of the store never
\* changes.
C22_DimensionReconciled ==
    /\ searched.status # "ValueError"
    /\ \A i \in 1..Len(store.index) : Len(store.index[i]) = store.dimension
    /\ store.dimension = StoreDimension

\* C29: whenever finalize_documents has returned, also after documents
\* added following an earlier finalize, the global vector store holds one
\* vector per entry of global_chunks, document_mapping is as long as
\* global_chunks, and the store of every document holds that document's
\* chunks, each paired with the embedding of that same chunk.
C29_MultiDocumentConsistency ==
    mds.last = [op |-> "finalize_documents", outcome |-> "ok"] =>
        /\ Len(mds.global_vector_store) = 1
        /\ Len(mds.global_vector_store[1].index) = Len(mds.global_chunks)
        /\ Len(mds.document_mapping) = Len(mds.global_chunks)
        /\ Len(mds.vector_stores) = Len(mds.documents)
        /\ \A k \in 1..Len(mds.documents) :
              LET before == SeqSum([j \in 1..(k - 1) |-> mds.documents[j].chunk_count])
                  own == SubSeq(mds.global_chunks, before + 1,
                                before + mds.documents[k].chunk_count)
                  st == mds.vector_stores[k]
              IN  /\ st.text_chunks = own
                  /\ Len(st.index) = Len(own)
                  /\ \A i \in 1..Len(own) :
                        st.index[i] = Reconcile(Transform(vectorizer.vocabulary, own[i]),
                                                st.dimension)

====
